---- MODULE Spec2Model ----
(***************************************************************************)
(* A model of the CommonUI widget layer:                                   *)
(*   - UCommonTabListWidgetBase   (CommonTabListWidgetBase.cpp)            *)
(*   - UCommonActivatableWidget   (CommonActivatableWidget.h)              *)
(*   - UCommonInputSubsystem      (CommonInputSubsystem.h)                 *)
(* The tab list is modelled from its implementation.  The activatable      *)
(* widget, the input routing and the input subsystem are declared in the   *)
(* headers only; their behaviour is modelled from the headers' comments    *)
(* and the specification's design notes.  The button group and the TMap    *)
(* are engine collaborators, modelled by their contracts.                  *)
(***************************************************************************)
EXTENDS Integers, Sequences, FiniteSets, TLC

\* ------------------------------------------------------------------ bounds
NumTabNames == 2
NumWidgets == 2
\* The last instant of the clock the input subsystem reads.
MaxTime == 6

\* --------------------------------------------------------- program constants
NAME_None == 0
nullptr == 0

TabNames == 1..NumTabNames
\* The content widget a caller may pass for a tab.
ContentWidgets == {1}
\* Addresses a tab button object can live at; at most one button per tab name
\* is alive at any time.
ButtonIds == 1..NumTabNames

\* The activatable widgets, a chain in the widget tree: widget 1 is the root and
\* widget w + 1 is the child of widget w.
Widgets == 1..NumWidgets
\* An unset TOptional<FUIInputConfig>.
NoInputConfig == 0

VARIABLES
    \* UCommonTabListWidgetBase
    RegisteredTabsByID,    \* TMap<FName, FCommonRegisteredTabInfo>
    TabButtonGroup,        \* the Buttons array of the UCommonButtonGroupBase
    bSelected,             \* the tab buttons whose selected flag is set
    ActiveTabID,
    LinkedSwitcher,        \* nullptr or the linked UCommonAnimatedSwitcher
    bAutoListenForInput,
    bIsListeningForInput,
    bTabListConstructed,   \* between NativeConstruct and NativeDestruct
    Events,                \* callbacks and broadcasts raised by the last call, in order
    lastCall,              \* the last call on the tab list, with its result
    RegOrder,              \* history: registered identifiers, oldest registration first
    FirstReg               \* history: the entry each live identifier's first registration made

VARIABLES
    \* UCommonActivatableWidget, one value per widget
    bIsActive,
    bAutoActivate,
    bIsBackHandler,
    bIsModal,
    DesiredInputConfig,    \* what GetDesiredInputConfig returns
    bSupportsActivationFocus,
    bAutoRestoreFocus,
    bWidgetConstructed,    \* between NativeConstruct and NativeDestruct
    \* the input routing the activatable widgets take part in
    ActiveInputConfig,     \* the input configuration in effect
    FocusedWidget,         \* the widget that holds the focused widget
    FocusedTarget,         \* which widget of FocusedWidget has focus: the one
                           \* GetDesiredFocusTarget returns, or another one
    FocusRestorationTarget, \* per widget, the cached weak reference to the widget
                           \* that had focus when it last stopped being leaf-most
    ActivationStack,       \* history: the active widgets in activation order, each
                           \* with the input configuration in effect before it and
                           \* whether all that was active before it still is
    ActivationEvents,      \* the activation events the last call raised, in order
    bActivationListenerBound, \* a listener is bound to OnActivated() and OnDeactivated()
    LastActivationEvent,   \* history the listener keeps: per widget, the last
                           \* activation event it was told of
    actCall                \* the last call on an activatable widget

VARIABLES
    \* UCommonInputSubsystem
    CurrentInputType,
    LastInputType,
    NumberOfInputMethodChangesRecently,
    LastInputMethodChangeTime,
    LastTimeInputMethodThrashingBegan,
    Now,                   \* the platform clock
    inputCall              \* the last call on the input subsystem

tabVars == <<RegisteredTabsByID, TabButtonGroup, bSelected, ActiveTabID, LinkedSwitcher,
             bAutoListenForInput, bIsListeningForInput,
             bTabListConstructed, Events, lastCall, RegOrder, FirstReg>>

actVars == <<bIsActive, bAutoActivate, bIsBackHandler, bIsModal, DesiredInputConfig,
             bSupportsActivationFocus, bAutoRestoreFocus,
             bWidgetConstructed, ActiveInputConfig, FocusedWidget, FocusedTarget,
             FocusRestorationTarget, ActivationStack, ActivationEvents,
             bActivationListenerBound, LastActivationEvent, actCall>>

inputVars == <<CurrentInputType, LastInputType, NumberOfInputMethodChangesRecently,
               LastInputMethodChangeTime, LastTimeInputMethodThrashingBegan, Now,
               inputCall>>

vars == <<tabVars, actVars, inputVars>>

\* ------------------------------------------------------------- TMap helpers
EmptyMap == [k \in {} |-> nullptr]

\* TMap::Add: inserts the pair, replacing the value of an existing key.
MapAdd(m, k, v) == [x \in (DOMAIN m) \cup {k} |-> IF x = k THEN v ELSE m[x]]

\* TMap::Remove
MapRemove(m, k) == [x \in (DOMAIN m) \ {k} |-> m[x]]

SeqRemove(s, e) == SelectSeq(s, LAMBDA x : x # e)

\* The tab list's state as one value, threaded through the handlers below.
TabListState ==
    [tabs |-> RegisteredTabsByID, Buttons |-> TabButtonGroup, sel |-> bSelected,
     ActiveTabID |-> ActiveTabID, LinkedSwitcher |-> LinkedSwitcher,
     listening |-> bIsListeningForInput,
     Events |-> <<>>, ret |-> FALSE]

\* A callback, broadcast or call on a collaborator, with the identifier and the
\* widget it is given, and whether the registry holds the identifier at that
\* moment.
Fire(tl, ev, id, button) ==
    [tl EXCEPT !.Events = Append(@, [ev |-> ev, id |-> id, button |-> button,
                                     registered |-> id \in DOMAIN tl.tabs])]

\* --------------------------------------------------- HandleTabButtonSelected
HandleTabButtonSelected(tl, SelectedTabButton) ==
    LET Match == {k \in DOMAIN tl.tabs : tl.tabs[k].TabButton = SelectedTabButton}
    IN  IF Match = {} THEN tl
        ELSE LET Key == CHOOSE k \in Match : TRUE
                 TabInfo == tl.tabs[Key]
                 t1 == [tl EXCEPT !.ActiveTabID = Key]
                 t2 == IF TabInfo.ContentInstance # nullptr /\ tl.LinkedSwitcher # nullptr
                       THEN Fire(t1, "SetActiveWidget", Key, TabInfo.ContentInstance)
                       ELSE t1
             IN  Fire(t2, "OnTabSelected", Key, SelectedTabButton)

\* ------------------------------------------- button and button group (engine)
\* UCommonButtonBase::SetIsSelected(true): a no-op on a selected button; otherwise
\* the button becomes selected and its group deselects the others and raises
\* OnSelectedButtonBaseChanged, which the tab list listens to.
ButtonSetIsSelected(tl, Button) ==
    IF Button \in tl.sel THEN tl
    ELSE LET InGroup == {tl.Buttons[i] : i \in 1..Len(tl.Buttons)}
             t1 == IF Button \in InGroup
                   THEN [tl EXCEPT !.sel = (@ \ InGroup) \cup {Button}]
                   ELSE [tl EXCEPT !.sel = @ \cup {Button}]
         IN  IF Button \in InGroup THEN HandleTabButtonSelected(t1, Button) ELSE t1

\* UCommonButtonGroupBase::AddWidget with selection required: the first button of
\* the group is selected on being added.
GroupAddWidget(tl, Button) ==
    LET t1 == [tl EXCEPT !.Buttons = Append(@, Button)]
    IN  IF Len(t1.Buttons) = 1 THEN ButtonSetIsSelected(t1, Button) ELSE t1

\* UCommonButtonGroupBase::RemoveWidget with selection required: when the selected
\* button leaves, the first remaining button is selected.
GroupRemoveWidget(tl, Button) ==
    LET t1 == [tl EXCEPT !.Buttons = SeqRemove(@, Button)]
        wasIn == t1.Buttons # tl.Buttons
    IN  IF wasIn /\ Button \in tl.sel /\ Len(t1.Buttons) > 0
        THEN ButtonSetIsSelected(t1, t1.Buttons[1])
        ELSE t1

\* CreateWidget<UCommonButtonBase>: a new, unselected button object, or nullptr
\* when creation fails.
CreateWidget(tl, bCreateSucceeds) ==
    LET Used == {tl.tabs[k].TabButton : k \in DOMAIN tl.tabs}
                \cup {tl.Buttons[i] : i \in 1..Len(tl.Buttons)}
        Free == ButtonIds \ Used
    IN  IF bCreateSucceeds /\ Free # {}
        THEN CHOOSE b \in Free : \A c \in Free : b <= c
        ELSE nullptr

\* ------------------------------------------------------------- RegisterTab
\* A registration that does not look for the identifier in the registry.
IsRedundantRegistration_Unchecked(tabs, TabNameID) == FALSE

IsRedundantRegistration(tabs, TabNameID) == TabNameID \in DOMAIN tabs

NewTabIndex(tabs) == Cardinality(DOMAIN tabs)

\* A registration that adds the button to the group before it records the tab.
RegisterNewTab_GroupFirst(tl, TabNameID, NewTabButton, ContentWidget) ==
    LET NewTabInfo == [TabIndex |-> NewTabIndex(tl.tabs), TabButton |-> NewTabButton,
                       ContentInstance |-> ContentWidget]
        t1 == GroupAddWidget(tl, NewTabButton)
        t2 == [t1 EXCEPT !.tabs = MapAdd(@, TabNameID, NewTabInfo)]
        t3 == Fire(t2, "HandleTabCreation", TabNameID, NewTabButton)
        t4 == Fire(t3, "OnTabButtonCreation", TabNameID, NewTabButton)
    IN  [t4 EXCEPT !.ret = TRUE]

\* The book-keeping for a created button, the button's entry into the group, and
\* the creation callbacks.
RegisterNewTab(tl, TabNameID, NewTabButton, ContentWidget) ==
    LET NewTabInfo == [TabIndex |-> NewTabIndex(tl.tabs), TabButton |-> NewTabButton,
                       ContentInstance |-> ContentWidget]
        t1 == [tl EXCEPT !.tabs = MapAdd(@, TabNameID, NewTabInfo)]
        t2 == GroupAddWidget(t1, NewTabButton)
        t3 == Fire(t2, "HandleTabCreation", TabNameID, NewTabButton)
        t4 == Fire(t3, "OnTabButtonCreation", TabNameID, NewTabButton)
    IN  [t4 EXCEPT !.ret = TRUE]

\* A registration that records the tab before it knows the button was created.
RegisterTabImpl_RecordFirst(tl, TabNameID, ButtonWidgetType, bCreateSucceeds, ContentWidget) ==
    LET AreParametersValid ==
            /\ ~IsRedundantRegistration(tl.tabs, TabNameID)
            /\ ButtonWidgetType # nullptr
        NewTabButton == CreateWidget(tl, bCreateSucceeds)
        NewTabInfo == [TabIndex |-> NewTabIndex(tl.tabs), TabButton |-> NewTabButton,
                       ContentInstance |-> ContentWidget]
    IN  IF ~AreParametersValid THEN [tl EXCEPT !.ret = FALSE]
        ELSE IF NewTabButton = nullptr
             THEN [tl EXCEPT !.tabs = MapAdd(@, TabNameID, NewTabInfo), !.ret = FALSE]
        ELSE RegisterNewTab(tl, TabNameID, NewTabButton, ContentWidget)

RegisterTabImpl(tl, TabNameID, ButtonWidgetType, bCreateSucceeds, ContentWidget) ==
    LET AreParametersValid ==
            /\ ~IsRedundantRegistration(tl.tabs, TabNameID)
            /\ ButtonWidgetType # nullptr
        NewTabButton == CreateWidget(tl, bCreateSucceeds)
    IN  IF ~AreParametersValid THEN [tl EXCEPT !.ret = FALSE]
        ELSE IF NewTabButton = nullptr THEN [tl EXCEPT !.ret = FALSE]
        ELSE RegisterNewTab(tl, TabNameID, NewTabButton, ContentWidget)

\* --------------------------------------------------------------- RemoveTab
\* A removal that runs the callbacks before it takes the entry out of the registry.
RemoveRegisteredTab_CallbacksFirst(tl, TabNameID) ==
    LET TabButton == tl.tabs[TabNameID].TabButton
        t1 == IF TabButton # nullptr THEN GroupRemoveWidget(tl, TabButton) ELSE tl
        t2 == Fire(t1, "HandleTabRemoval", TabNameID, TabButton)
        t3 == Fire(t2, "OnTabButtonRemoval", TabNameID, TabButton)
        t4 == [t3 EXCEPT !.tabs = MapRemove(@, TabNameID)]
    IN  [t4 EXCEPT !.sel = @ \ {TabButton}, !.ret = TRUE]

\* The removal of a tab that was found in the registry.
RemoveRegisteredTab(tl, TabNameID) ==
    LET TabButton == tl.tabs[TabNameID].TabButton
        t1 == IF TabButton # nullptr THEN GroupRemoveWidget(tl, TabButton) ELSE tl
        t2 == [t1 EXCEPT !.tabs = MapRemove(@, TabNameID)]
        t3 == Fire(t2, "HandleTabRemoval", TabNameID, TabButton)
        t4 == Fire(t3, "OnTabButtonRemoval", TabNameID, TabButton)
    IN  \* the removed button object is released with its selected flag
        [t4 EXCEPT !.sel = @ \ {TabButton}, !.ret = TRUE]

\* A removal that runs the callbacks whether or not it found the tab.
RemoveTabImpl_CallbacksAlways(tl, TabNameID) ==
    IF TabNameID \notin DOMAIN tl.tabs
    THEN LET t1 == Fire(tl, "HandleTabRemoval", TabNameID, nullptr)
             t2 == Fire(t1, "OnTabButtonRemoval", TabNameID, nullptr)
         IN  [t2 EXCEPT !.ret = FALSE]
    ELSE RemoveRegisteredTab(tl, TabNameID)

RemoveTabImpl(tl, TabNameID) ==
    IF TabNameID \notin DOMAIN tl.tabs THEN [tl EXCEPT !.ret = FALSE]
    ELSE RemoveRegisteredTab(tl, TabNameID)

\* ------------------------------------------------------------ RemoveAllTabs
\* The TMap iterator walks the map's element slots in order; Remove frees the
\* slot of the removed pair and moves no other pair, so the walk goes on with
\* the pairs that are left.
\* A walk that steps over the pair after each one it removes.
RECURSIVE RemoveAllTabsFrom_SkipAfterRemove(_, _)
RemoveAllTabsFrom_SkipAfterRemove(tl, Slot) ==
    IF Slot > NumTabNames THEN tl
    ELSE IF Slot \in DOMAIN tl.tabs
         THEN RemoveAllTabsFrom_SkipAfterRemove(RemoveTabImpl(tl, Slot), Slot + 2)
         ELSE RemoveAllTabsFrom_SkipAfterRemove(tl, Slot + 1)

RECURSIVE RemoveAllTabsFrom(_, _)
RemoveAllTabsFrom(tl, Slot) ==
    IF Slot > NumTabNames THEN tl
    ELSE IF Slot \in DOMAIN tl.tabs
         THEN RemoveAllTabsFrom(RemoveTabImpl(tl, Slot), Slot + 1)
         ELSE RemoveAllTabsFrom(tl, Slot + 1)

RemoveAllTabs(tl) == RemoveAllTabsFrom(tl, 1)

GetTabCount == Cardinality(DOMAIN RegisteredTabsByID)

\* ------------------------------------------------------ SetListeningForInput
SetListeningForInput(tl, bShouldListen, bHasUISubsystem) ==
    IF ~bHasUISubsystem THEN tl
    ELSE IF bShouldListen # tl.listening THEN [tl EXCEPT !.listening = bShouldListen]
    ELSE tl

\* ----------------------------------------------------------- NativeDestruct
NativeDestructImpl(tl, bHasUISubsystem) ==
    LET t1 == SetListeningForInput(tl, FALSE, bHasUISubsystem)
        t2 == [t1 EXCEPT !.ActiveTabID = NAME_None]
        t3 == RemoveAllTabs(t2)
    IN  [t3 EXCEPT !.Buttons = <<>>]

\* ------------------------------------------------------------ SelectTabByID
\* A selection that takes the first tab with a button, whatever its identifier.
SelectTabByIDImpl_AnyTab(tl, TabNameID) ==
    LET Has == {k \in DOMAIN tl.tabs : tl.tabs[k].TabButton # nullptr}
    IN  IF Has # {}
        THEN LET First == CHOOSE k \in Has : \A j \in Has : k <= j
             IN  [ButtonSetIsSelected(tl, tl.tabs[First].TabButton) EXCEPT !.ret = TRUE]
        ELSE [tl EXCEPT !.ret = FALSE]

SelectTabByIDImpl(tl, TabNameID) ==
    IF TabNameID \in DOMAIN tl.tabs /\ tl.tabs[TabNameID].TabButton # nullptr
    THEN [ButtonSetIsSelected(tl, tl.tabs[TabNameID].TabButton) EXCEPT !.ret = TRUE]
    ELSE [tl EXCEPT !.ret = FALSE]

\* ---------------------------------------------------------- GetTabIdAtIndex
\* The identifier of the first pair, in the map's iteration order, whose TabIndex
\* is Index; NAME_None when Index is not below the number of tabs or no pair has it.
GetTabIdAtIndex(tabs, Index) ==
    LET Match == {k \in DOMAIN tabs : tabs[k].TabIndex = Index}
    IN  IF Index < Cardinality(DOMAIN tabs) /\ Match # {}
        THEN CHOOSE k \in Match : \A j \in Match : k <= j
        ELSE NAME_None

\* ------------------------------------------------------------------ actions
\* Writes a handler's result back to the tab list's fields.
Commit(tl, op, id) ==
    /\ RegisteredTabsByID' = tl.tabs
    /\ TabButtonGroup' = tl.Buttons
    /\ bSelected' = tl.sel
    /\ ActiveTabID' = tl.ActiveTabID
    /\ bIsListeningForInput' = tl.listening
    /\ Events' = tl.Events
    /\ lastCall' = [op |-> op, id |-> id, ret |-> tl.ret]
    /\ RegOrder' = LET kept == SelectSeq(RegOrder, LAMBDA k : k \in DOMAIN tl.tabs)
                   IN  IF op = "RegisterTab" /\ tl.ret
                          /\ id \notin {kept[i] : i \in 1..Len(kept)}
                       THEN Append(kept, id) ELSE kept
    /\ FirstReg' = [k \in DOMAIN tl.tabs |->
                       IF k \in DOMAIN FirstReg THEN FirstReg[k] ELSE tl.tabs[k]]

RegisterTab ==
    \E TabNameID \in TabNames, ButtonWidgetType \in {nullptr, 1},
       bCreateSucceeds \in BOOLEAN, ContentWidget \in ContentWidgets \cup {nullptr} :
        /\ Commit(RegisterTabImpl(TabListState, TabNameID, ButtonWidgetType,
                                  bCreateSucceeds, ContentWidget),
                  "RegisterTab", TabNameID)
        /\ UNCHANGED <<LinkedSwitcher, bAutoListenForInput, bTabListConstructed>>
        /\ UNCHANGED <<actVars, inputVars>>

RemoveTab ==
    \E TabNameID \in TabNames :
        /\ Commit(RemoveTabImpl(TabListState, TabNameID), "RemoveTab", TabNameID)
        /\ UNCHANGED <<LinkedSwitcher, bAutoListenForInput, bTabListConstructed>>
        /\ UNCHANGED <<actVars, inputVars>>

SelectTabByID ==
    \E TabNameID \in TabNames :
        /\ Commit(SelectTabByIDImpl(TabListState, TabNameID), "SelectTabByID", TabNameID)
        /\ UNCHANGED <<LinkedSwitcher, bAutoListenForInput, bTabListConstructed>>
        /\ UNCHANGED <<actVars, inputVars>>

SetLinkedSwitcher ==
    \E CommonSwitcher \in {nullptr, 1} :
        /\ LinkedSwitcher' = CommonSwitcher
        /\ Events' = IF LinkedSwitcher # CommonSwitcher
                     THEN << [ev |-> "HandlePreLinkedSwitcherChanged", id |-> NAME_None,
                              button |-> nullptr, registered |-> FALSE],
                             [ev |-> "HandlePostLinkedSwitcherChanged", id |-> NAME_None,
                              button |-> nullptr, registered |-> FALSE] >>
                     ELSE <<>>
        /\ lastCall' = [op |-> "SetLinkedSwitcher", id |-> NAME_None, ret |-> TRUE]
        /\ UNCHANGED <<RegisteredTabsByID, TabButtonGroup, bSelected, ActiveTabID,
                       bAutoListenForInput, bIsListeningForInput,
                       bTabListConstructed, RegOrder, FirstReg>>
        /\ UNCHANGED <<actVars, inputVars>>

TabListNativeConstruct ==
    \E bHasUISubsystem \in BOOLEAN :
        /\ ~bTabListConstructed
        /\ bTabListConstructed' = TRUE
        /\ Commit(IF bAutoListenForInput
                  THEN SetListeningForInput(TabListState, TRUE, bHasUISubsystem)
                  ELSE TabListState,
                  "NativeConstruct", NAME_None)
        /\ UNCHANGED <<LinkedSwitcher, bAutoListenForInput>>
        /\ UNCHANGED <<actVars, inputVars>>

TabListNativeDestruct ==
    \E bHasUISubsystem \in BOOLEAN :
        /\ bTabListConstructed
        /\ bTabListConstructed' = FALSE
        /\ Commit(NativeDestructImpl(TabListState, bHasUISubsystem),
                  "NativeDestruct", NAME_None)
        /\ UNCHANGED <<LinkedSwitcher, bAutoListenForInput>>
        /\ UNCHANGED <<actVars, inputVars>>

\* The tab list after its constructor and NativeOnInitialized: no tab, an empty
\* button group that requires a selection.
TabListInit ==
    /\ RegisteredTabsByID = EmptyMap
    /\ TabButtonGroup = <<>>
    /\ bSelected = {}
    /\ ActiveTabID = NAME_None
    /\ LinkedSwitcher = nullptr
    /\ bAutoListenForInput = FALSE
    /\ bIsListeningForInput = FALSE
    /\ bTabListConstructed = FALSE
    /\ Events = <<>>
    /\ lastCall = [op |-> "Init", id |-> NAME_None, ret |-> TRUE]
    /\ RegOrder = <<>>
    /\ FirstReg = EmptyMap

\* =================================================== UCommonActivatableWidget
\* The widget's tree position: its ancestors, nearest first in a walk to the root.
Ancestors(w) == 1..(w - 1)

\* Property defaults that are switched on.
bAutoActivate_DefaultOn == TRUE
bIsBackHandler_DefaultOn == TRUE

bAutoActivate_Default == FALSE
bIsBackHandler_Default == FALSE
bIsModal_Default == FALSE
\* A widget that is created active.
bIsActive_DefaultOn == TRUE
bIsActive_Default == FALSE
bSupportsActivationFocus_Default == TRUE
bAutoRestoreFocus_Default == FALSE

IsActivated(w) == bIsActive[w]

SupportsActivationFocus(w) == bSupportsActivationFocus[w]

\* An answer that takes either property for both.
AutoRestoresFocus_Either(w) == bSupportsActivationFocus[w] \/ bAutoRestoreFocus[w]

AutoRestoresFocus(w) == bSupportsActivationFocus[w] /\ bAutoRestoreFocus[w]

\* A widget can receive input when it is active and all its parents are active,
\* up to the root of the routing: the root of the tree, or a modal widget, which
\* is a root whatever its parents are.
RECURSIVE CanReceiveInput(_, _)
CanReceiveInput(active, w) ==
    /\ active[w]
    /\ \/ Ancestors(w) = {}
       \/ bIsModal[w]
       \/ CanReceiveInput(active, w - 1)

\* The leaf-most active node: the deepest widget that can receive input, among
\* the widgets that are candidates to receive focus and to set the input
\* configuration.
LeafmostActive(active) ==
    LET R == {w \in Widgets : CanReceiveInput(active, w) /\ SupportsActivationFocus(w)}
    IN  IF R = {} THEN nullptr ELSE CHOOSE w \in R : \A v \in R : v <= w

\* The walk from a node to the root of the routing that takes the first set answer.
RECURSIVE WalkInputConfig(_)
WalkInputConfig(w) ==
    IF w = nullptr THEN NoInputConfig
    ELSE IF DesiredInputConfig[w] # NoInputConfig THEN DesiredInputConfig[w]
    ELSE IF bIsModal[w] THEN NoInputConfig
    ELSE WalkInputConfig(w - 1)

\* A resolution that keeps the configuration in effect when the walk finds none.
ResolveInputConfig_KeepLast(active, current) ==
    LET found == WalkInputConfig(LeafmostActive(active))
    IN  IF found = NoInputConfig THEN current ELSE found

\* The input configuration in effect for a set of active widgets.
ResolveInputConfig(active, current) == WalkInputConfig(LeafmostActive(active))

\* A routing that does not look for a modal widget below the node.
IsRoutable_IgnoreModal(active, w) == CanReceiveInput(active, w)

\* Input is routed to a widget that can receive input unless a modal widget below
\* it is active: the modal widget is the root of the routing.
IsRoutable(active, w) ==
    /\ CanReceiveInput(active, w)
    /\ ~\E m \in Widgets : m > w /\ bIsModal[m] /\ active[m]

\* The activatable widgets' state as one value, threaded through the handlers.
ActivatableState ==
    [active |-> bIsActive, cfg |-> ActiveInputConfig, focus |-> FocusedWidget,
     target |-> FocusedTarget, restore |-> FocusRestorationTarget,
     stack |-> ActivationStack, events |-> <<>>]

\* An unset weak reference.
NoRestorationTarget == [target |-> "None", valid |-> FALSE]

\* A widget that auto-restores focus and stops being the leaf-most active node
\* caches the widget of its own that has focus at that moment, if one has.
CacheFocusRestorationTarget(aw, w) ==
    IF ~AutoRestoresFocus(w) THEN aw
    ELSE IF aw.focus = w
         THEN [aw EXCEPT !.restore[w] = [target |-> aw.target, valid |-> TRUE]]
         ELSE [aw EXCEPT !.restore[w] = NoRestorationTarget]

\* The widget to focus when w becomes the primary active widget: the cached
\* restoration target if w auto-restores focus and the target is still valid,
\* otherwise what GetDesiredFocusTarget returns.
GetFocusTarget(restore, w) ==
    IF AutoRestoresFocus(w) /\ restore[w].valid
    THEN restore[w].target
    ELSE "Desired"

\* The routing's reaction to a change of the active widgets: the configuration is
\* resolved again, and when the leaf-most active node changed, the old one caches
\* its restoration target and focus goes to the new one.
OnActivationChanged(aw, newActive) ==
    LET old == LeafmostActive(aw.active)
        leaf == LeafmostActive(newActive)
        t1 == IF leaf # old /\ old # nullptr
              THEN CacheFocusRestorationTarget(aw, old) ELSE aw
    IN  [t1 EXCEPT !.active = newActive,
                   !.cfg = ResolveInputConfig(newActive, aw.cfg),
                   !.focus = IF leaf # old THEN leaf ELSE @,
                   !.target = IF leaf = old THEN @
                              ELSE IF leaf = nullptr THEN "None"
                              ELSE GetFocusTarget(t1.restore, leaf)]

\* NativeOnActivated and the OnActivated broadcast (NativeOnDeactivated and
\* OnDeactivated) of widget w.
FireActivationEvent(aw, ev, w) ==
    [aw EXCEPT !.events = Append(@, [ev |-> ev, w |-> w])]

InternalProcessActivation(aw, w) ==
    LET t1 == [aw EXCEPT !.stack = Append(@, [w |-> w, cfg |-> aw.cfg, nested |-> TRUE])]
        t2 == OnActivationChanged(t1, [aw.active EXCEPT ![w] = TRUE])
    IN  FireActivationEvent(t2, "OnActivated", w)

\* The history without widget w; the widgets activated after w are no longer
\* nested in what was active before them.
StackWithout(stack, w) ==
    LET at == {i \in 1..Len(stack) : stack[i].w = w}
        marked == [i \in 1..Len(stack) |->
                      IF \E j \in at : j < i THEN [stack[i] EXCEPT !.nested = FALSE]
                      ELSE stack[i]]
    IN  SelectSeq(marked, LAMBDA e : e.w # w)

InternalProcessDeactivation(aw, w) ==
    LET t1 == [aw EXCEPT !.stack = StackWithout(@, w)]
        t2 == OnActivationChanged(t1, [aw.active EXCEPT ![w] = FALSE])
    IN  FireActivationEvent(t2, "OnDeactivated", w)

ActivateWidgetImpl(aw, w) ==
    IF aw.active[w] THEN aw ELSE InternalProcessActivation(aw, w)

DeactivateWidgetImpl(aw, w) ==
    IF aw.active[w] THEN InternalProcessDeactivation(aw, w) ELSE aw

\* A destruct that leaves the activation as it is.
ActivatableNativeDestructImpl_NoDeactivate(aw, w) == aw

ActivatableNativeDestructImpl(aw, w) == DeactivateWidgetImpl(aw, w)

ActivatableNativeConstructImpl(aw, w) ==
    IF bAutoActivate[w] THEN ActivateWidgetImpl(aw, w) ELSE aw

\* NativeOnHandleBackAction: a back handler deactivates unless the Blueprint
\* override handles the action itself.
HandleBackActionImpl(aw, w, bHandledByBP) ==
    IF bIsBackHandler[w]
    THEN IF ~bHandledByBP THEN DeactivateWidgetImpl(aw, w) ELSE aw
    ELSE aw

\* A request that sets focus whichever node is leaf-most.
RequestRefreshFocusImpl_Steal(aw, w) == [aw EXCEPT !.focus = w, !.target = "Desired"]

\* RequestRefreshFocus: focus is set again to the widget's desired focus target
\* only if the widget is the leaf-most active node.
RequestRefreshFocusImpl(aw, w) ==
    IF LeafmostActive(aw.active) = w
    THEN [aw EXCEPT !.focus = w, !.target = "Desired"]
    ELSE aw

ActCommit(aw, call) ==
    /\ bIsActive' = aw.active
    /\ ActiveInputConfig' = aw.cfg
    /\ FocusedWidget' = aw.focus
    /\ FocusedTarget' = aw.target
    /\ FocusRestorationTarget' = aw.restore
    /\ ActivationStack' = aw.stack
    /\ ActivationEvents' = aw.events
    /\ LastActivationEvent' =
          IF bActivationListenerBound
          THEN [w \in Widgets |->
                   LET mine == SelectSeq(aw.events, LAMBDA e : e.w = w)
                   IN  IF mine = <<>> THEN LastActivationEvent[w] ELSE mine[Len(mine)].ev]
          ELSE LastActivationEvent
    /\ actCall' = call
    /\ UNCHANGED <<bAutoActivate, bIsBackHandler, bIsModal, DesiredInputConfig,
                   bSupportsActivationFocus, bAutoRestoreFocus, bActivationListenerBound>>
    /\ UNCHANGED <<tabVars, inputVars>>

\* The record of a call on widget w: the call, its argument, and whether the
\* widget was active when it came.
Call(op, w, arg) == [op |-> op, w |-> w, arg |-> arg, was |-> bIsActive[w]]

ActivateWidget ==
    \E w \in Widgets :
        /\ ActCommit(ActivateWidgetImpl(ActivatableState, w), Call("ActivateWidget", w, TRUE))
        /\ UNCHANGED bWidgetConstructed

DeactivateWidget ==
    \E w \in Widgets :
        /\ ActCommit(DeactivateWidgetImpl(ActivatableState, w),
                     Call("DeactivateWidget", w, TRUE))
        /\ UNCHANGED bWidgetConstructed

ActivatableNativeConstruct ==
    \E w \in Widgets :
        /\ ~bWidgetConstructed[w]
        /\ bWidgetConstructed' = [bWidgetConstructed EXCEPT ![w] = TRUE]
        /\ ActCommit(ActivatableNativeConstructImpl(ActivatableState, w),
                     Call("NativeConstruct", w, TRUE))

ActivatableNativeDestruct ==
    \E w \in Widgets :
        /\ bWidgetConstructed[w]
        /\ bWidgetConstructed' = [bWidgetConstructed EXCEPT ![w] = FALSE]
        /\ ActCommit(ActivatableNativeDestructImpl(ActivatableState, w),
                     Call("NativeDestruct", w, TRUE))

HandleBackAction ==
    \E w \in Widgets, bHandledByBP \in BOOLEAN :
        /\ ActCommit(HandleBackActionImpl(ActivatableState, w, bHandledByBP),
                     Call("HandleBackAction", w, bHandledByBP))
        /\ UNCHANGED bWidgetConstructed

RequestRefreshFocus ==
    \E w \in Widgets :
        /\ ActCommit(RequestRefreshFocusImpl(ActivatableState, w),
                     Call("RequestRefreshFocus", w, TRUE))
        /\ UNCHANGED bWidgetConstructed

\* An input action bound by widget w arrives; the argument recorded says whether
\* it was routed to w.
RouteInputAction ==
    \E w \in Widgets :
        /\ ActCommit(ActivatableState, Call("RouteInputAction", w, IsRoutable(bIsActive, w)))
        /\ UNCHANGED bWidgetConstructed

\* The user moves focus off the desired focus targets.
UserMovesFocus ==
    /\ FocusedWidget # nullptr
    /\ ActCommit([ActivatableState EXCEPT !.focus = nullptr, !.target = "None"],
                 [op |-> "UserMovesFocus", w |-> nullptr, arg |-> TRUE, was |-> FALSE])
    /\ UNCHANGED bWidgetConstructed

\* The user moves focus, within the leaf-most active node, to a widget other than
\* the desired focus target.
UserFocusesOther ==
    \E w \in Widgets :
        /\ LeafmostActive(bIsActive) = w
        /\ ~(FocusedWidget = w /\ FocusedTarget = "Other")
        /\ ActCommit([ActivatableState EXCEPT !.focus = w, !.target = "Other"],
                     Call("UserFocusesOther", w, TRUE))
        /\ UNCHANGED bWidgetConstructed

\* The widget a cached restoration target refers to is destroyed: the weak
\* reference is no longer valid, and focus is lost if that widget had it.
FocusTargetDestroyed ==
    \E w \in Widgets :
        /\ FocusRestorationTarget[w].valid
        /\ FocusRestorationTarget[w].target = "Other"
        /\ LET aw == ActivatableState
               t1 == [aw EXCEPT !.restore[w].valid = FALSE]
               t2 == IF aw.focus = w /\ aw.target = "Other"
                     THEN [t1 EXCEPT !.focus = nullptr, !.target = "None"]
                     ELSE t1
           IN  ActCommit(t2, Call("FocusTargetDestroyed", w, TRUE))
        /\ UNCHANGED bWidgetConstructed

\* Widgets as created objects not yet added to the UI, with the routing at rest.
ActivatableInitCommon ==
    /\ bIsActive = [w \in Widgets |-> bIsActive_Default]
    /\ bWidgetConstructed = [w \in Widgets |-> FALSE]
    /\ ActiveInputConfig = NoInputConfig
    /\ FocusedWidget = nullptr
    /\ FocusedTarget = "None"
    /\ FocusRestorationTarget = [w \in Widgets |-> NoRestorationTarget]
    /\ ActivationStack = <<>>
    /\ ActivationEvents = <<>>
    /\ LastActivationEvent = [w \in Widgets |-> "None"]
    /\ actCall = [op |-> "None", w |-> nullptr, arg |-> TRUE, was |-> FALSE]

\* The focus properties at their defaults, and nothing bound to the widgets'
\* activation delegates.
ActivatableInitFocusDefault ==
    /\ bSupportsActivationFocus = [w \in Widgets |-> bSupportsActivationFocus_Default]
    /\ bAutoRestoreFocus = [w \in Widgets |-> bAutoRestoreFocus_Default]
    /\ bActivationListenerBound = FALSE

\* Widgets with every property at its default.
ActivatableInitDefault ==
    /\ ActivatableInitCommon
    /\ bAutoActivate = [w \in Widgets |-> bAutoActivate_Default]
    /\ bIsBackHandler = [w \in Widgets |-> bIsBackHandler_Default]
    /\ bIsModal = [w \in Widgets |-> bIsModal_Default]
    /\ DesiredInputConfig = [w \in Widgets |-> NoInputConfig]
    /\ ActivatableInitFocusDefault

\* Widgets whose activation properties the designer set.
ActivatableInitLifecycle ==
    /\ ActivatableInitCommon
    /\ bAutoActivate \in [Widgets -> BOOLEAN]
    /\ bIsBackHandler \in [Widgets -> BOOLEAN]
    /\ bIsModal = [w \in Widgets |-> bIsModal_Default]
    /\ DesiredInputConfig = [w \in Widgets |-> NoInputConfig]
    /\ ActivatableInitFocusDefault

\* Widgets whose routing properties the designer set: a widget either desires an
\* input configuration of its own (numbered as the widget) or none.
ActivatableInitRouting ==
    /\ ActivatableInitCommon
    /\ bAutoActivate = [w \in Widgets |-> bAutoActivate_Default]
    /\ bIsBackHandler = [w \in Widgets |-> bIsBackHandler_Default]
    /\ bIsModal \in [Widgets -> BOOLEAN]
    /\ \E S \in SUBSET Widgets :
          DesiredInputConfig = [w \in Widgets |-> IF w \in S THEN w ELSE NoInputConfig]
    /\ ActivatableInitFocusDefault

\* Widgets whose focus properties the designer set.
ActivatableInitFocus ==
    /\ ActivatableInitCommon
    /\ bAutoActivate = [w \in Widgets |-> bAutoActivate_Default]
    /\ bIsBackHandler = [w \in Widgets |-> bIsBackHandler_Default]
    /\ bIsModal = [w \in Widgets |-> bIsModal_Default]
    /\ DesiredInputConfig = [w \in Widgets |-> NoInputConfig]
    /\ bSupportsActivationFocus \in [Widgets -> BOOLEAN]
    /\ bAutoRestoreFocus \in [Widgets -> BOOLEAN]
    /\ bActivationListenerBound = FALSE

\* Widgets whose bAutoActivate the designer set, with a listener bound to every
\* widget's OnActivated() and OnDeactivated().
ActivatableInitObserved ==
    /\ ActivatableInitCommon
    /\ bAutoActivate \in [Widgets -> BOOLEAN]
    /\ bIsBackHandler = [w \in Widgets |-> bIsBackHandler_Default]
    /\ bIsModal = [w \in Widgets |-> bIsModal_Default]
    /\ DesiredInputConfig = [w \in Widgets |-> NoInputConfig]
    /\ bSupportsActivationFocus = [w \in Widgets |-> bSupportsActivationFocus_Default]
    /\ bAutoRestoreFocus = [w \in Widgets |-> bAutoRestoreFocus_Default]
    /\ bActivationListenerBound = TRUE

\* The calls of a widget's life: construction, removal, activation, back action.
ActivatableNext ==
    \/ ActivateWidget
    \/ DeactivateWidget
    \/ ActivatableNativeConstruct
    \/ ActivatableNativeDestruct
    \/ HandleBackAction

\* The calls the input routing sees: activation changes, focus requests, input.
RoutingNext ==
    \/ ActivateWidget
    \/ DeactivateWidget
    \/ RequestRefreshFocus
    \/ RouteInputAction
    \/ UserMovesFocus

\* The calls that change a widget's activation.
ActivationNext ==
    \/ ActivateWidget
    \/ DeactivateWidget
    \/ ActivatableNativeConstruct
    \/ ActivatableNativeDestruct

\* The calls that move focus: activation changes, the user, widgets going away.
FocusNext ==
    \/ ActivateWidget
    \/ DeactivateWidget
    \/ UserFocusesOther
    \/ FocusTargetDestroyed

\* ====================================================== UCommonInputSubsystem
InputTypes == {"MouseAndKeyboard", "Gamepad", "Touch"}

\* The length of the time window in which changes of input method are counted,
\* and for which the input type stays locked once thrashing is found.
InputMethodThrashingWindow == 2
\* The number of changes within the window above which the input type is locked.
InputMethodThrashingLimit == 2

InputState ==
    [count |-> NumberOfInputMethodChangesRecently, lastChange |-> LastInputMethodChangeTime,
     began |-> LastTimeInputMethodThrashingBegan, now |-> Now, thrashing |-> FALSE]

\* The input type is locked from the instant thrashing began until the window
\* has elapsed.
IsThrashingLocked(began, now) == began + InputMethodThrashingWindow > now

\* A check that forgets the lock of thrashing found before.
CheckForInputMethodThrashing_NoLock(st, NewInputType) ==
    LET ChangeDelta == st.now - st.lastChange
        t1 == [st EXCEPT !.lastChange = st.now]
    IN  IF ChangeDelta < InputMethodThrashingWindow
        THEN IF st.count + 1 > InputMethodThrashingLimit
             THEN [t1 EXCEPT !.began = st.now, !.count = 0, !.thrashing = TRUE]
             ELSE [t1 EXCEPT !.count = @ + 1]
        ELSE [t1 EXCEPT !.count = 0]

\* Counts the change when it comes within the window of the one before; when the
\* count exceeds the limit, thrashing begins. Answers whether the input type is
\* locked.
CheckForInputMethodThrashing(st, NewInputType) ==
    IF IsThrashingLocked(st.began, st.now) THEN [st EXCEPT !.thrashing = TRUE]
    ELSE LET ChangeDelta == st.now - st.lastChange
             t1 == [st EXCEPT !.lastChange = st.now]
         IN  IF ChangeDelta < InputMethodThrashingWindow
             THEN IF st.count + 1 > InputMethodThrashingLimit
                  THEN [t1 EXCEPT !.began = st.now, !.count = 0, !.thrashing = TRUE]
                  ELSE [t1 EXCEPT !.count = @ + 1]
             ELSE [t1 EXCEPT !.count = 0]

SetCurrentInputType ==
    \E NewInputType \in InputTypes :
        LET st == IF NewInputType # CurrentInputType
                  THEN CheckForInputMethodThrashing(InputState, NewInputType)
                  ELSE InputState
            accepted == NewInputType # CurrentInputType /\ ~st.thrashing
        IN  /\ NumberOfInputMethodChangesRecently' = st.count
            /\ LastInputMethodChangeTime' = st.lastChange
            /\ LastTimeInputMethodThrashingBegan' = st.began
            /\ CurrentInputType' = IF accepted THEN NewInputType ELSE CurrentInputType
            /\ LastInputType' = IF accepted THEN CurrentInputType ELSE LastInputType
            /\ inputCall' = [op |-> "SetCurrentInputType", type |-> NewInputType,
                             thrashing |-> st.thrashing]
            /\ UNCHANGED Now
            /\ UNCHANGED <<tabVars, actVars>>

\* The platform clock moves on.
Tick ==
    /\ Now < MaxTime
    /\ Now' = Now + 1
    /\ inputCall' = [op |-> "Tick", type |-> CurrentInputType, thrashing |-> FALSE]
    /\ UNCHANGED <<CurrentInputType, LastInputType, NumberOfInputMethodChangesRecently,
                   LastInputMethodChangeTime, LastTimeInputMethodThrashingBegan>>
    /\ UNCHANGED <<tabVars, actVars>>

\* The subsystem after Initialize, at an instant of the platform clock later than
\* one window after its zero.
InputInit ==
    /\ CurrentInputType = "MouseAndKeyboard"
    /\ LastInputType = "MouseAndKeyboard"
    /\ NumberOfInputMethodChangesRecently = 0
    /\ LastInputMethodChangeTime = 0
    /\ LastTimeInputMethodThrashingBegan = 0
    /\ Now = InputMethodThrashingWindow
    /\ inputCall = [op |-> "Initialize", type |-> "MouseAndKeyboard", thrashing |-> FALSE]

InputNext ==
    \/ SetCurrentInputType
    \/ Tick

\* ================================================================ the system
Init == TabListInit /\ ActivatableInitDefault /\ InputInit

Next ==
    \/ RegisterTab
    \/ RemoveTab
    \/ SelectTabByID
    \/ SetLinkedSwitcher
    \/ TabListNativeConstruct
    \/ TabListNativeDestruct

\* The tab list under every sequence of calls.
Spec == Init /\ [][Next]_vars

\* The activatable widgets under every sequence of calls, for every setting of
\* bAutoActivate and bIsBackHandler.
InitActivatable == TabListInit /\ ActivatableInitLifecycle /\ InputInit

SpecActivatable == InitActivatable /\ [][ActivatableNext]_vars

\* The activatable widgets under every sequence of calls, for every setting of
\* bIsModal and of the desired input configurations.
InitRouting == TabListInit /\ ActivatableInitRouting /\ InputInit

SpecRouting == InitRouting /\ [][RoutingNext]_vars

\* The activatable widgets under every sequence of activation and focus changes,
\* for every setting of bSupportsActivationFocus and bAutoRestoreFocus.
InitFocus == TabListInit /\ ActivatableInitFocus /\ InputInit

SpecFocus == InitFocus /\ [][FocusNext]_vars

\* The activatable widgets under every sequence of ActivateWidget,
\* DeactivateWidget, NativeConstruct and NativeDestruct, as a listener bound to
\* their activation delegates sees them, for every setting of bAutoActivate.
InitActivation == TabListInit /\ ActivatableInitObserved /\ InputInit

SpecActivation == InitActivation /\ [][ActivationNext]_vars

\* The input subsystem under every sequence of input-type changes and clock ticks.
SpecInput == Init /\ [][InputNext]_vars

\* ======================================================== tab list claims
CountEvents(evs, ev, id) ==
    Cardinality({i \in 1..Len(evs) : evs[i].ev = ev /\ evs[i].id = id})

\* C1: for any two registered tabs, the one registered earlier has a strictly
\* smaller TabIndex (so no two registered tabs share a TabIndex).
C1_IndexReflectsRegistrationOrder ==
    \A i, j \in 1..Len(RegOrder) :
        i < j => RegisteredTabsByID[RegOrder[i]].TabIndex
                    < RegisteredTabsByID[RegOrder[j]].TabIndex

C2_EntryIsFirstRegistration ==
    \A k \in DOMAIN RegisteredTabsByID : RegisteredTabsByID[k] = FirstReg[k]

C2_RedundantRegisterRejected ==
    (lastCall'.op = "RegisterTab" /\ lastCall'.id \in DOMAIN RegisteredTabsByID)
        => /\ lastCall'.ret = FALSE
           /\ RegisteredTabsByID' = RegisteredTabsByID
           /\ Events' = <<>>

\* C2: RegisterTab with an identifier that is already registered returns false
\* and leaves the existing entry (button, content widget, index) as it is, so
\* every registered identifier maps to the entry its first successful
\* registration since its last removal created.
C2_IdentifiersUnique ==
    [](C2_EntryIsFirstRegistration) /\ [][C2_RedundantRegisterRejected]_vars

C2_Witness ==
    /\ lastCall.op = "RegisterTab"
    /\ lastCall.ret = FALSE
    /\ lastCall.id \in DOMAIN RegisteredTabsByID
    /\ GetTabCount = NumTabNames

C3_DestructClearsRegistry ==
    lastCall'.op = "NativeDestruct"
        => /\ GetTabCount' = 0
           /\ RegisteredTabsByID' = EmptyMap
           /\ \A k \in TabNames :
                LET n == IF k \in DOMAIN RegisteredTabsByID THEN 1 ELSE 0
                IN  /\ CountEvents(Events', "HandleTabRemoval", k) = n
                    /\ CountEvents(Events', "OnTabButtonRemoval", k) = n

\* C3: after NativeDestruct the registry is empty (GetTabCount() is 0), whatever
\* number of tabs was registered, and every tab registered before it received
\* exactly one HandleTabRemoval and one OnTabButtonRemoval.
C3_RegistryClearedOnTeardown == [][C3_DestructClearsRegistry]_vars

C3_Witness ==
    /\ lastCall.op = "NativeDestruct"
    /\ GetTabCount = 0
    /\ \A k \in TabNames : CountEvents(Events, "HandleTabRemoval", k) = 1

\* ============================================== activatable widget claims
\* The step is NativeDestruct of widget w.
IsDestructStep(w) == bWidgetConstructed[w] /\ ~bWidgetConstructed'[w]

C4_DestructDeactivates ==
    \A w \in Widgets :
        IsDestructStep(w)
            => /\ ~IsActivated(w)'
               /\ w \in DOMAIN bIsActive'
               /\ bAutoActivate'[w] = bAutoActivate[w]
               /\ bIsBackHandler'[w] = bIsBackHandler[w]
               /\ \A v \in Widgets \ {w} : bIsActive'[v] = bIsActive[v]

\* C4: after NativeDestruct the widget is not activated, whatever calls of
\* ActivateWidget and DeactivateWidget came before, and the widget is still
\* there with its properties; no other widget's activation changes.
C4_RemovalDeactivates == [][C4_DestructDeactivates]_vars

C4_Witness ==
    /\ actCall.op = "NativeDestruct"
    /\ actCall.was
    /\ ~IsActivated(actCall.w)
    /\ \E v \in Widgets : IsActivated(v)

\* C5: a widget that is inactive when NativeConstruct comes is active after it if
\* and only if bAutoActivate is true; with the default bAutoActivate it stays
\* inactive.
C5_ConstructActivatesOnlyIfAuto ==
    actCall.op = "NativeConstruct" /\ ~actCall.was
        => /\ IsActivated(actCall.w) <=> bAutoActivate[actCall.w]
           /\ bAutoActivate[actCall.w] = bAutoActivate_Default => ~IsActivated(actCall.w)

C5_Witness ==
    /\ actCall.op = "NativeConstruct"
    /\ ~actCall.was
    /\ IsActivated(actCall.w)
    /\ bAutoActivate[actCall.w]

C6_BackActionStep ==
    actCall'.op = "HandleBackAction"
        => LET w == actCall'.w
           IN  /\ (bIsBackHandler[w] /\ ~actCall'.arg) => ~bIsActive'[w]
               /\ (bIsBackHandler[w] = bIsBackHandler_Default) => bIsActive' = bIsActive
               /\ bWidgetConstructed' = bWidgetConstructed
               /\ \A v \in Widgets \ {w} : bIsActive'[v] = bIsActive[v]

\* C6: an active back handler that receives a back action its Blueprint override
\* does not handle is deactivated and stays constructed; a widget with the default
\* bIsBackHandler is not deactivated by a back action; no other widget changes.
C6_BackActionDeactivatesHandler == [][C6_BackActionStep]_vars

C6_Witness ==
    /\ actCall.op = "HandleBackAction"
    /\ actCall.was
    /\ ~actCall.arg
    /\ bIsBackHandler[actCall.w]
    /\ ~IsActivated(actCall.w)
    /\ bWidgetConstructed[actCall.w]

\* A modal widget below w is active.
ModalBelow(w) == \E m \in Widgets : m > w /\ bIsModal[m] /\ IsActivated(m)

\* C7: while a modal widget is active, no input action is routed to any of its
\* ancestors, active or not, and focus is on none of them; a widget that can
\* receive input with no active modal widget below it is routed to.
C7_ModalBlocksAncestors ==
    /\ \A m \in Widgets :
          (bIsModal[m] /\ IsActivated(m))
              => \A a \in Ancestors(m) : FocusedWidget # a
    /\ actCall.op = "RouteInputAction"
          => /\ ModalBelow(actCall.w) => ~actCall.arg
             /\ (CanReceiveInput(bIsActive, actCall.w) /\ ~ModalBelow(actCall.w))
                    => actCall.arg

C7_Witness ==
    /\ actCall.op = "RouteInputAction"
    /\ ~actCall.arg
    /\ CanReceiveInput(bIsActive, actCall.w)
    /\ ModalBelow(actCall.w)

C8_ActivationStep ==
    \A w \in Widgets :
        (~bIsActive[w] /\ bIsActive'[w] /\ LeafmostActive(bIsActive') = w
            /\ DesiredInputConfig[w] # NoInputConfig)
        => ActiveInputConfig' = DesiredInputConfig[w]

C8_DeactivationStep ==
    \A w \in Widgets :
        (bIsActive[w] /\ ~bIsActive'[w] /\ Len(ActivationStack) > 0
            /\ ActivationStack[Len(ActivationStack)].w = w
            /\ ActivationStack[Len(ActivationStack)].nested)
        => ActiveInputConfig' = ActivationStack[Len(ActivationStack)].cfg

C9_RefreshFocusStep ==
    actCall'.op = "RequestRefreshFocus"
        => /\ LeafmostActive(bIsActive) = actCall'.w => FocusedWidget' = actCall'.w
           /\ LeafmostActive(bIsActive) # actCall'.w => FocusedWidget' = FocusedWidget
           /\ bIsActive' = bIsActive

\* C9: RequestRefreshFocus sets focus to the widget's desired focus target only
\* if the widget is the leaf-most active node; otherwise focus is unchanged.
C9_RefreshFocusNeverSteals == [][C9_RefreshFocusStep]_vars

C9_Witness ==
    /\ actCall.op = "RequestRefreshFocus"
    /\ actCall.was
    /\ LeafmostActive(bIsActive) # actCall.w
    /\ LeafmostActive(bIsActive) # nullptr
    /\ FocusedWidget = nullptr

\* ================================================== input subsystem claims
C10_LockHoldsInputType ==
    (inputCall'.op = "SetCurrentInputType"
        /\ IsThrashingLocked(LastTimeInputMethodThrashingBegan, Now))
    => /\ CurrentInputType' = CurrentInputType
       /\ inputCall'.type # CurrentInputType => inputCall'.thrashing

C10_LockBeginsOverLimit ==
    (inputCall'.op = "SetCurrentInputType"
        /\ ~IsThrashingLocked(LastTimeInputMethodThrashingBegan, Now)
        /\ inputCall'.type # CurrentInputType)
    => LET over == /\ Now - LastInputMethodChangeTime < InputMethodThrashingWindow
                   /\ NumberOfInputMethodChangesRecently + 1 > InputMethodThrashingLimit
       IN  IF over
           THEN /\ LastTimeInputMethodThrashingBegan' = Now
                /\ IsThrashingLocked(LastTimeInputMethodThrashingBegan', Now')
                /\ CurrentInputType' = CurrentInputType
           ELSE /\ LastTimeInputMethodThrashingBegan' = LastTimeInputMethodThrashingBegan
                /\ CurrentInputType' = inputCall'.type

C10_LockEndsWithWindow ==
    IsThrashingLocked(LastTimeInputMethodThrashingBegan, Now)
        => Now < LastTimeInputMethodThrashingBegan + InputMethodThrashingWindow

\* C10: when the count of input-method changes within the window exceeds the
\* limit, the input type is locked: change requests leave the current input type
\* as it is until the window has elapsed since the lock began, and a change
\* requested after that is accepted.
C10_ThrashingLocksInputType ==
    /\ [][C10_LockHoldsInputType /\ C10_LockBeginsOverLimit]_vars
    /\ [](C10_LockEndsWithWindow)

C10_Witness ==
    /\ inputCall.op = "SetCurrentInputType"
    /\ ~inputCall.thrashing
    /\ CurrentInputType = inputCall.type
    /\ LastTimeInputMethodThrashingBegan > 0
    /\ Now >= LastTimeInputMethodThrashingBegan + InputMethodThrashingWindow
    /\ LastInputMethodChangeTime = Now

\* ================================================ focus restoration claims
C11_BecomesPrimaryStep ==
    \A w \in Widgets :
        (LeafmostActive(bIsActive) # w /\ LeafmostActive(bIsActive') = w)
        => /\ FocusedWidget' = w
           /\ FocusedTarget' =
                 IF bSupportsActivationFocus[w] /\ bAutoRestoreFocus[w]
                    /\ FocusRestorationTarget[w].valid
                 THEN FocusRestorationTarget[w].target
                 ELSE "Desired"

C11_AutoRestoreNeedsActivationFocus ==
    \A w \in Widgets :
        /\ AutoRestoresFocus(w) <=> (bSupportsActivationFocus[w] /\ bAutoRestoreFocus[w])
        /\ ~bSupportsActivationFocus[w]
              => /\ FocusedWidget # w
                 /\ FocusRestorationTarget[w] = NoRestorationTarget

\* C11: when a widget becomes the primary (leaf-most) active widget, focus goes
\* to its cached restoration target if bSupportsActivationFocus and
\* bAutoRestoreFocus are both true and the cached target is valid, and to the
\* result of GetDesiredFocusTarget otherwise; AutoRestoresFocus() is true only
\* when both properties are, and a widget that does not support activation focus
\* neither caches nor is given a restoration target.
C11_FocusRestoration ==
    /\ [][C11_BecomesPrimaryStep]_vars
    /\ [](C11_AutoRestoreNeedsActivationFocus)

C11_Witness ==
    /\ actCall.op = "DeactivateWidget"
    /\ actCall.was
    /\ FocusedWidget # nullptr
    /\ FocusedWidget # actCall.w
    /\ AutoRestoresFocus(FocusedWidget)
    /\ FocusedTarget = "Other"
    /\ FocusRestorationTarget[FocusedWidget] = [target |-> "Other", valid |-> TRUE]

\* ================================================ tab list claims, continued
\* C12: for every index i with 0 <= i < GetTabCount(), GetTabIdAtIndex(i) is the
\* identifier of a registered tab, and distinct indices give distinct identifiers.
C12_IndexLookupCoversRegistry ==
    /\ \A i \in 0..(GetTabCount - 1) :
          GetTabIdAtIndex(RegisteredTabsByID, i) \in DOMAIN RegisteredTabsByID
    /\ \A i, j \in 0..(GetTabCount - 1) :
          i # j => GetTabIdAtIndex(RegisteredTabsByID, i)
                      # GetTabIdAtIndex(RegisteredTabsByID, j)

\* The positions in Events of the event ev for identifier id.
EventPositions(evs, ev, id) == {i \in 1..Len(evs) : evs[i].ev = ev /\ evs[i].id = id}

\* C13: every OnTabSelected raised during a call is for an identifier the registry
\* holds at that moment; and after a RegisterTab that returned true and put the
\* first button into the group, ActiveTabID is the new identifier, OnTabSelected
\* was broadcast for it, and HandleTabCreation and OnTabButtonCreation fired once
\* each, in that order, after the broadcast.
C13_SelectionHandledBeforeCreationCallbacks ==
    /\ \A i \in 1..Len(Events) : Events[i].ev = "OnTabSelected" => Events[i].registered
    /\ (lastCall.op = "RegisterTab" /\ lastCall.ret /\ Len(TabButtonGroup) = 1)
          => LET sel == EventPositions(Events, "OnTabSelected", lastCall.id)
                 hc == EventPositions(Events, "HandleTabCreation", lastCall.id)
                 oc == EventPositions(Events, "OnTabButtonCreation", lastCall.id)
             IN  /\ ActiveTabID = lastCall.id
                 /\ Cardinality(sel) = 1
                 /\ Cardinality(hc) = 1
                 /\ Cardinality(oc) = 1
                 /\ \A i \in sel, j \in hc, k \in oc : i < j /\ j < k

C13_Witness ==
    /\ lastCall.op = "RegisterTab"
    /\ lastCall.ret
    /\ Len(TabButtonGroup) = 1
    /\ ActiveTabID = lastCall.id
    /\ Len(Events) = 4
    /\ Events[1].ev = "SetActiveWidget"
    /\ Events[2].ev = "OnTabSelected"
    /\ Events[4].ev = "OnTabButtonCreation"

C14_RegisterStep ==
    lastCall'.op = "RegisterTab"
        => IF lastCall'.ret
           THEN GetTabCount' = GetTabCount + 1
           ELSE /\ RegisteredTabsByID' = RegisteredTabsByID
                /\ TabButtonGroup' = TabButtonGroup
                /\ bSelected' = bSelected
                /\ ActiveTabID' = ActiveTabID
                /\ \A i \in 1..Len(Events') :
                      Events'[i].ev \notin {"HandleTabCreation", "OnTabButtonCreation"}

\* C14: a RegisterTab call that returns false leaves the registry, the button
\* group, the buttons' selection and ActiveTabID unchanged and fires neither
\* HandleTabCreation nor OnTabButtonCreation; a call that returns true increases
\* GetTabCount() by exactly one.
C14_RegisterAllOrNothing == [][C14_RegisterStep]_vars

C14_Witness ==
    /\ lastCall.op = "RegisterTab"
    /\ ~lastCall.ret
    /\ lastCall.id \notin DOMAIN RegisteredTabsByID
    /\ GetTabCount = NumTabNames - 1
    /\ ActiveTabID \in DOMAIN RegisteredTabsByID
    /\ Events = <<>>

C15_RemoveUnregisteredStep ==
    (lastCall'.op = "RemoveTab" /\ lastCall'.id \notin DOMAIN RegisteredTabsByID)
        => /\ lastCall'.ret = FALSE
           /\ RegisteredTabsByID' = RegisteredTabsByID
           /\ TabButtonGroup' = TabButtonGroup
           /\ bSelected' = bSelected
           /\ \A i \in 1..Len(Events') :
                 Events'[i].ev \notin {"HandleTabRemoval", "OnTabButtonRemoval"}

\* C15: RemoveTab with an identifier that is not registered returns false, leaves
\* the registry and the button group unchanged, and fires neither
\* HandleTabRemoval nor OnTabButtonRemoval.
C15_RemoveUnregisteredIsNoOp == [][C15_RemoveUnregisteredStep]_vars

C15_Witness ==
    /\ lastCall.op = "RemoveTab"
    /\ ~lastCall.ret
    /\ lastCall.id \notin DOMAIN RegisteredTabsByID
    /\ GetTabCount = NumTabNames - 1
    /\ Len(TabButtonGroup) = NumTabNames - 1
    /\ Events = <<>>

C16_RemoveRegisteredStep ==
    (lastCall'.op = "RemoveTab" /\ lastCall'.id \in DOMAIN RegisteredTabsByID)
        => LET id == lastCall'.id
               TabButton == RegisteredTabsByID[id].TabButton
               hr == EventPositions(Events', "HandleTabRemoval", id)
               br == EventPositions(Events', "OnTabButtonRemoval", id)
           IN  /\ lastCall'.ret = TRUE
               /\ GetTabCount' = GetTabCount - 1
               /\ DOMAIN RegisteredTabsByID' = DOMAIN RegisteredTabsByID \ {id}
               /\ \A k \in DOMAIN RegisteredTabsByID' :
                     RegisteredTabsByID'[k] = RegisteredTabsByID[k]
               /\ TabButtonGroup' = SeqRemove(TabButtonGroup, TabButton)
               /\ \A i \in 1..Len(TabButtonGroup') : TabButtonGroup'[i] # TabButton
               /\ Cardinality(hr) = 1
               /\ Cardinality(br) = 1
               /\ \A i \in hr, j \in br :
                     /\ i < j
                     /\ ~Events'[i].registered /\ Events'[i].button = TabButton
                     /\ ~Events'[j].registered /\ Events'[j].button = TabButton
               /\ \A i \in 1..Len(Events') :
                     Events'[i].ev \in {"HandleTabRemoval", "OnTabButtonRemoval"}
                        => Events'[i].id = id

\* C16: RemoveTab with a registered identifier returns true, removes exactly that
\* entry (GetTabCount() decreases by one, the button leaves the button group),
\* leaves the entry of every other tab as it was, and fires HandleTabRemoval and
\* then OnTabButtonRemoval, once each and for that identifier only, when the
\* entry is no longer in the registry.
C16_RemoveRegisteredFrame == [][C16_RemoveRegisteredStep]_vars

C16_Witness ==
    /\ lastCall.op = "RemoveTab"
    /\ lastCall.ret
    /\ lastCall.id \notin DOMAIN RegisteredTabsByID
    /\ GetTabCount = NumTabNames - 1
    /\ Len(Events) >= 3
    /\ Events[Len(Events)].ev = "OnTabButtonRemoval"
    /\ Events[Len(Events) - 1].ev = "HandleTabRemoval"
    /\ Events[1].ev = "OnTabSelected"

C17_SelectStep ==
    lastCall'.op = "SelectTabByID"
        => LET id == lastCall'.id
           IN  /\ lastCall'.ret <=> id \in DOMAIN RegisteredTabsByID
               /\ RegisteredTabsByID' = RegisteredTabsByID
               /\ TabButtonGroup' = TabButtonGroup
               /\ lastCall'.ret
                     => /\ RegisteredTabsByID[id].TabButton \in bSelected'
                        /\ ActiveTabID' = id
               /\ ~lastCall'.ret
                     => /\ bSelected' = bSelected
                        /\ ActiveTabID' = ActiveTabID
                        /\ LinkedSwitcher' = LinkedSwitcher
                        /\ bIsListeningForInput' = bIsListeningForInput
                        /\ Events' = <<>>

\* C17: SelectTabByID returns true exactly when the identifier is registered; then
\* the tab's button is selected and ActiveTabID is the identifier when the call
\* returns; when it returns false, no button's selection and nothing of the tab
\* list's state changes.
C17_SelectByIdentifier == [][C17_SelectStep]_vars

C17_Witness ==
    /\ lastCall.op = "SelectTabByID"
    /\ lastCall.ret
    /\ GetTabCount = NumTabNames
    /\ ActiveTabID = lastCall.id
    /\ RegisteredTabsByID[lastCall.id].TabIndex > 0
    /\ bSelected = {RegisteredTabsByID[lastCall.id].TabButton}
    /\ Len(Events) > 0
    /\ Events[Len(Events)].ev = "OnTabSelected"

\* ================================================ activation events claims
\* The activation events of widget w among evs, in order.
EventsOf(evs, w) == SelectSeq(evs, LAMBDA e : e.w = w)

C18_NoOpStep ==
    /\ (actCall'.op = "ActivateWidget" /\ bIsActive[actCall'.w])
          => /\ ActivationEvents' = <<>>
             /\ bIsActive' = bIsActive
             /\ <<ActiveInputConfig, FocusedWidget, FocusedTarget>>'
                   = <<ActiveInputConfig, FocusedWidget, FocusedTarget>>
    /\ (actCall'.op = "DeactivateWidget" /\ ~bIsActive[actCall'.w])
          => /\ ActivationEvents' = <<>>
             /\ bIsActive' = bIsActive
             /\ <<ActiveInputConfig, FocusedWidget, FocusedTarget>>'
                   = <<ActiveInputConfig, FocusedWidget, FocusedTarget>>

C18_EventsAlternateStep ==
    \A w \in Widgets :
        LET mine == EventsOf(ActivationEvents', w)
        IN  /\ Len(mine) <= 1
            /\ Len(mine) = 1
                 => /\ mine[1].ev # LastActivationEvent[w]
                    /\ LastActivationEvent[w] = "None" => mine[1].ev = "OnActivated"
                    /\ mine[1].ev \in {"OnActivated", "OnDeactivated"}
            /\ (Len(mine) = 1) <=> (bIsActive'[w] # bIsActive[w])

C18_ActiveBetweenEvents ==
    \A w \in Widgets : IsActivated(w) <=> LastActivationEvent[w] = "OnActivated"

\* C18: ActivateWidget on an active widget and DeactivateWidget on an inactive
\* widget change nothing and raise no event; a call raises an event for a widget
\* exactly when that widget's activation changes, each event differs from the
\* widget's previous one and the first is OnActivated; and a widget is activated
\* exactly when its last event is OnActivated.
C18_ActivationEventsAlternate ==
    /\ [][C18_NoOpStep /\ C18_EventsAlternateStep]_vars
    /\ [](C18_ActiveBetweenEvents)

C18_Witness ==
    /\ actCall.op = "ActivateWidget"
    /\ actCall.was
    /\ ActivationEvents = <<>>
    /\ \A w \in Widgets : IsActivated(w) <=> w = actCall.w
    /\ \A w \in Widgets \ {actCall.w} : LastActivationEvent[w] = "OnDeactivated"

====
